---- MODULE Spec2Model ----
(***************************************************************************)
(* Model of the Matrix class of src/src/matrix.ts and of the scalar        *)
(* helpers of src/src/math.ts.                                             *)
(*                                                                         *)
(* Numbers.  A JavaScript number is modelled at a resolution of 1/Scale:   *)
(* the integer n stands for the number n/Scale, products and quotients     *)
(* are rounded to that resolution.  Angles handed to Math.sin/Math.cos and *)
(* returned by Math.asin/acos/atan2 are counted in units of pi/12          *)
(* (15 degrees); the inverse functions return the nearest such angle.      *)
(*                                                                         *)
(* Storage.  Every JavaScript array is an entry of `heap`; a Matrix        *)
(* instance is an entry of `mat` holding the index of the array its        *)
(* `elements` field refers to, so that two references to one array are     *)
(* visible as such.                                                        *)
(***************************************************************************)
EXTENDS Integers, Sequences, FiniteSets, TLC

VARIABLES heap, mat, ext, last, steps

vars == <<heap, mat, ext, last, steps>>

-----------------------------------------------------------------------------
(* Bounds of the exploration *)

MaxInst == 3
MaxArr == 4
MaxSteps == 3
MaxAbs == 4

-----------------------------------------------------------------------------
(* Numbers at resolution 1/Scale *)

Scale == 1000

Abs(n) == IF n < 0 THEN -n ELSE n

Sign(n) == IF n < 0 THEN -1 ELSE 1

\* n/d rounded to the nearest integer (d > 0)
RoundDiv(n, d) == Sign(n) * ((2 * Abs(n) + d) \div (2 * d))

Mul(a, b) == RoundDiv(a * b, Scale)

Div(a, b) == Sign(b) * RoundDiv(a * Scale, Abs(b))

RECURSIVE ISqrt(_, _, _)
ISqrt(n, lo, hi) ==
    IF hi - lo <= 1 THEN lo
    ELSE LET mid == (lo + hi) \div 2
         IN  IF mid * mid <= n THEN ISqrt(n, mid, hi) ELSE ISqrt(n, lo, mid)

\* Math.sqrt of a number >= 0
Sqrt(a) ==
    LET n == a * Scale
        r == ISqrt(n, 0, 46340)
    IN  IF n - r * r <= (r + 1) * (r + 1) - n THEN r ELSE r + 1

\* Math.max / Math.min
Max(a, b) == IF a > b THEN a ELSE b

Min(a, b) == IF a < b THEN a ELSE b

-----------------------------------------------------------------------------
(* src/src/math.ts *)

\* Math.PI, in units of pi/12
PI == 12

\* radians(degrees) = degrees * (Math.PI / 180), in units of pi/12
radians(deg) == (deg * PI) \div 180

\* degrees(radians) = radians * (180 / Math.PI)
degrees(rad) == rad * (180 \div PI)

clamp(value, min, max) == Max(min, Min(max, value))

\* round(num, scale) is Math.round(num * 10^scale) * 10^-scale; the model
\* returns the integer Math.round(num * 10^scale), which the caller compares
\* with a constant written in the same unit.  Math.round rounds halves up.
Pow10(k) == IF k = 0 THEN 1 ELSE IF k = 1 THEN 10 ELSE IF k = 2 THEN 100
            ELSE IF k = 3 THEN 1000 ELSE IF k = 4 THEN 10000 ELSE 100000

round(num, scale) == (2 * num * Pow10(scale) + Scale) \div (2 * Scale)

-----------------------------------------------------------------------------
(* Math.sin, Math.cos and their inverses on the grid of multiples of pi/12 *)

SinTab == <<0, 259, 500, 707, 866, 966, 1000>>

Sin(r) ==
    LET k == r % 24
    IN  IF k <= 6 THEN SinTab[k + 1]
        ELSE IF k <= 12 THEN SinTab[12 - k + 1]
        ELSE IF k <= 18 THEN -SinTab[k - 12 + 1]
        ELSE -SinTab[24 - k + 1]

Cos(r) == Sin(r + 6)

\* Math.sin(r) === 0.  The double nearest to a non-zero multiple of pi is not
\* that multiple, and its sine is a non-zero number below the resolution of
\* the model (Math.sin(radians(180)) is 1.2246e-16): only Math.sin(0) is 0.
SinIsZero(r) == r = 0

\* Math.atan2(y, x): the grid angle in (-pi, pi] nearest to the direction
\* (x, y), the one whose unit vector has the largest projection on it
Atan2(y, x) ==
    LET proj == [a \in -11..12 |-> x * Cos(a) + y * Sin(a)]
    IN  IF x = 0 /\ y = 0 THEN 0
        ELSE CHOOSE a \in -11..12 :
                \A b \in -11..12 :
                    proj[a] > proj[b] \/ (proj[a] = proj[b] /\ Abs(a) <= Abs(b))

\* Math.asin(v) for -1 <= v <= 1: the grid angle in [-pi/2, pi/2] nearest to it
Asin(v) ==
    LET dist == [a \in -6..6 |-> Abs(Sin(a) - v)]
    IN  CHOOSE a \in -6..6 : \A b \in -6..6 : dist[a] <= dist[b]

\* Math.acos(v) for -1 <= v <= 1: the grid angle in [0, pi] nearest to it
Acos(v) ==
    LET dist == [a \in 0..12 |-> Abs(Cos(a) - v)]
    IN  CHOOSE a \in 0..12 : \A b \in 0..12 : dist[a] <= dist[b]

-----------------------------------------------------------------------------
(* src/src/matrix.ts: the arithmetic of the class, as operators on the     *)
(* 16 elements.  El(m, i) is m[i] of the code (indices 0..15).             *)

One == Scale

\* The initial value of the field `elements`
Identity ==
    <<One, 0, 0, 0,
      0, One, 0, 0,
      0, 0, One, 0,
      0, 0, 0, One>>

El(m, i) == m[i + 1]

\* The assignments this.elements[i] = u[i], for the indices i in DOMAIN u
Put(m, u) == [k \in 1..16 |-> IF (k - 1) \in DOMAIN u THEN u[k - 1] ELSE m[k]]

EulerOrders == {"XYZ", "YXZ", "ZXY", "ZYX", "YZX", "ZYZ", "XZY"}

setPosition(m, x, y, z) == Put(m, (12 :> x) @@ (13 :> y) @@ (14 :> z))

\* setRotation writing elements[0] before it looks at the order
setRotationWriteFirst(m, xd, yd, zd, order) ==
    [elements |-> Put(m, (0 :> Mul(Cos(radians(yd)), Cos(radians(zd))))),
     threw |-> order \notin EulerOrders]

\* round(sy, 4) === 3.1416, both sides in units of 10^-4
Round4Pi == 31416

\* setRotation: [elements |-> the elements after the call, threw |-> whether
\* the call ended in `throw new Error`]
setRotation(m, xd, yd, zd, order) ==
    LET x == radians(xd)
        y == radians(yd)
        z == radians(zd)
        cx == Cos(x)
        sx == Sin(x)
        cy == Cos(y)
        sy == Sin(y)
        cz == Cos(z)
        sz == Sin(z)
        ok(u) == [elements |-> Put(m, u), threw |-> FALSE]
    IN  CASE order = "XYZ" ->
               LET ae == Mul(cx, cz)
                   af == Mul(cx, sz)
                   be == Mul(sx, cz)
                   bf == Mul(sx, sz)
               IN  ok((0 :> Mul(cy, cz)) @@ (4 :> Mul(-cy, sz)) @@ (8 :> sy)
                      @@ (1 :> af + Mul(be, sy)) @@ (5 :> ae - Mul(bf, sy))
                      @@ (9 :> Mul(-sx, cy))
                      @@ (2 :> bf - Mul(ae, sy)) @@ (6 :> be + Mul(af, sy))
                      @@ (10 :> Mul(cx, cy)))
          [] order = "YXZ" ->
               LET ce == Mul(cy, cz)
                   cf == Mul(cy, sz)
                   de == Mul(sy, cz)
                   df == Mul(sy, sz)
               IN  ok((0 :> ce + Mul(df, sx)) @@ (4 :> Mul(de, sx) - cf)
                      @@ (8 :> Mul(cx, sy))
                      @@ (1 :> Mul(cx, sz)) @@ (5 :> Mul(cx, cz)) @@ (9 :> -sx)
                      @@ (2 :> Mul(cf, sx) - de) @@ (6 :> df + Mul(ce, sx))
                      @@ (10 :> Mul(cx, cy)))
          [] order = "ZXY" ->
               LET ce == Mul(cy, cz)
                   cf == Mul(cy, sz)
                   de == Mul(sy, cz)
                   df == Mul(sy, sz)
               IN  ok((0 :> ce - Mul(df, sx)) @@ (4 :> Mul(-cx, sz))
                      @@ (8 :> de + Mul(cf, sx))
                      @@ (1 :> cf + Mul(de, sx)) @@ (5 :> Mul(cx, cz))
                      @@ (9 :> df - Mul(ce, sx))
                      @@ (2 :> Mul(-cx, sy)) @@ (6 :> sx) @@ (10 :> Mul(cx, cy)))
          [] order = "ZYX" ->
               LET ae == Mul(cx, cz)
                   af == Mul(cx, sz)
                   be == Mul(sx, cz)
                   bf == Mul(sx, sz)
               IN  ok((0 :> Mul(cy, cz)) @@ (4 :> Mul(be, sy) - af)
                      @@ (8 :> Mul(ae, sy) + bf)
                      @@ (1 :> Mul(cy, sz)) @@ (5 :> Mul(bf, sy) + ae)
                      @@ (9 :> Mul(af, sy) - be)
                      @@ (2 :> -sy) @@ (6 :> Mul(sx, cy)) @@ (10 :> Mul(cx, cy)))
          [] order = "YZX" ->
               LET ac == Mul(cx, cy)
                   ad == Mul(cx, sy)
                   bc == Mul(sx, cy)
                   bd == Mul(sx, sy)
               IN  ok((0 :> Mul(cy, cz)) @@ (4 :> bd - Mul(ac, sz))
                      @@ (8 :> Mul(bc, sz) + ad)
                      @@ (1 :> sz) @@ (5 :> Mul(cx, cz)) @@ (9 :> Mul(-sx, cz))
                      @@ (2 :> Mul(-sy, cz)) @@ (6 :> Mul(ad, sz) + bc)
                      @@ (10 :> ac - Mul(bd, sz)))
          [] order = "ZYZ" ->
               IF SinIsZero(y)
               THEN ok((0 :> Mul(cx, cz) - Mul(sx, sz))
                       @@ (4 :> Mul(-cz, sx) - Mul(cx, sz))
                       @@ (1 :> Mul(cz, sx) + Mul(cx, sz))
                       @@ (5 :> Mul(cx, cz) - Mul(sx, sz)))
               ELSE IF round(sy, 4) = Round4Pi
               THEN ok((0 :> Mul(-cx, cz) - Mul(sx, sz))
                       @@ (4 :> Mul(-cz, sx) + Mul(cx, sz))
                       @@ (1 :> Mul(-cz, sx) + Mul(cx, sz))
                       @@ (5 :> Mul(cx, cz) + Mul(sx, sz)))
               ELSE ok((0 :> Mul(Mul(cx, cy), cz) - Mul(sx, sz))
                       @@ (4 :> Mul(-cz, sx) - Mul(Mul(cy, cx), sz))
                       @@ (8 :> Mul(cx, sy))
                       @@ (1 :> Mul(Mul(sx, cy), cz) + Mul(cx, sz))
                       @@ (5 :> Mul(cx, cz) - Mul(Mul(cy, sx), sz))
                       @@ (9 :> Mul(sx, sy))
                       @@ (2 :> Mul(-sy, cz)) @@ (6 :> Mul(sy, sz)) @@ (10 :> cy))
          [] order = "XZY" ->
               LET ac == Mul(cx, cy)
                   ad == Mul(cx, sy)
                   bc == Mul(sx, cy)
                   bd == Mul(sx, sy)
               IN  ok((0 :> Mul(cy, cz)) @@ (4 :> bd - Mul(ac, sz))
                      @@ (8 :> Mul(bc, sz) + ad)
                      @@ (1 :> sz) @@ (5 :> Mul(cx, cz)) @@ (9 :> Mul(-sx, cz))
                      @@ (2 :> Mul(-sy, cz)) @@ (6 :> Mul(ad, sz) + bc)
                      @@ (10 :> ac - Mul(bd, sz)))
          [] OTHER -> [elements |-> m, threw |-> TRUE]

setRotationFromQuaternion(m, x, y, z, w) ==
    LET x2 == x + x
        y2 == y + y
        z2 == z + z
        xx == Mul(x, x2)
        xy == Mul(x, y2)
        xz == Mul(x, z2)
        yy == Mul(y, y2)
        yz == Mul(y, z2)
        zz == Mul(z, z2)
        wx == Mul(w, x2)
        wy == Mul(w, y2)
        wz == Mul(w, z2)
    IN  Put(m, (0 :> One - (yy + zz)) @@ (1 :> xy + wz) @@ (2 :> xz - wy)
               @@ (4 :> xy - wz) @@ (5 :> One - (xx + zz)) @@ (6 :> yz + wx)
               @@ (8 :> xz + wy) @@ (9 :> yz - wx) @@ (10 :> One - (xx + yy)))

\* multiplied with both arrays read row by row instead of column by column
multipliedRowMajor(ae, be) ==
    [k \in 1..16 |->
        LET c == (k - 1) \div 4
            r == (k - 1) % 4
        IN  Mul(ae[4 * r + 1], be[c + 1]) + Mul(ae[4 * r + 2], be[c + 5])
            + Mul(ae[4 * r + 3], be[c + 9]) + Mul(ae[4 * r + 4], be[c + 13])]

\* The elements of the array `te` that multiplied(m) fills, ae being
\* this.elements and be the copy m.toArray()
multiplied(ae, be) ==
    LET a11 == ae[1]
        a12 == ae[5]
        a13 == ae[9]
        a14 == ae[13]
        a21 == ae[2]
        a22 == ae[6]
        a23 == ae[10]
        a24 == ae[14]
        a31 == ae[3]
        a32 == ae[7]
        a33 == ae[11]
        a34 == ae[15]
        a41 == ae[4]
        a42 == ae[8]
        a43 == ae[12]
        a44 == ae[16]
        b11 == be[1]
        b12 == be[5]
        b13 == be[9]
        b14 == be[13]
        b21 == be[2]
        b22 == be[6]
        b23 == be[10]
        b24 == be[14]
        b31 == be[3]
        b32 == be[7]
        b33 == be[11]
        b34 == be[15]
        b41 == be[4]
        b42 == be[8]
        b43 == be[12]
        b44 == be[16]
    IN  <<Mul(a11, b11) + Mul(a12, b21) + Mul(a13, b31) + Mul(a14, b41),
          Mul(a21, b11) + Mul(a22, b21) + Mul(a23, b31) + Mul(a24, b41),
          Mul(a31, b11) + Mul(a32, b21) + Mul(a33, b31) + Mul(a34, b41),
          Mul(a41, b11) + Mul(a42, b21) + Mul(a43, b31) + Mul(a44, b41),
          Mul(a11, b12) + Mul(a12, b22) + Mul(a13, b32) + Mul(a14, b42),
          Mul(a21, b12) + Mul(a22, b22) + Mul(a23, b32) + Mul(a24, b42),
          Mul(a31, b12) + Mul(a32, b22) + Mul(a33, b32) + Mul(a34, b42),
          Mul(a41, b12) + Mul(a42, b22) + Mul(a43, b32) + Mul(a44, b42),
          Mul(a11, b13) + Mul(a12, b23) + Mul(a13, b33) + Mul(a14, b43),
          Mul(a21, b13) + Mul(a22, b23) + Mul(a23, b33) + Mul(a24, b43),
          Mul(a31, b13) + Mul(a32, b23) + Mul(a33, b33) + Mul(a34, b43),
          Mul(a41, b13) + Mul(a42, b23) + Mul(a43, b33) + Mul(a44, b43),
          Mul(a11, b14) + Mul(a12, b24) + Mul(a13, b34) + Mul(a14, b44),
          Mul(a21, b14) + Mul(a22, b24) + Mul(a23, b34) + Mul(a24, b44),
          Mul(a31, b14) + Mul(a32, b24) + Mul(a33, b34) + Mul(a34, b44),
          Mul(a41, b14) + Mul(a42, b24) + Mul(a43, b34) + Mul(a44, b44)>>

\* toQuaternion: <<x, y, z, w>>
toQuaternion(te) ==
    LET m11 == El(te, 0)
        m12 == El(te, 4)
        m13 == El(te, 8)
        m21 == El(te, 1)
        m22 == El(te, 5)
        m23 == El(te, 9)
        m31 == El(te, 2)
        m32 == El(te, 6)
        m33 == El(te, 10)
        trace == m11 + m22 + m33
    IN  IF trace > 0
        THEN LET s == Div(One \div 2, Sqrt(trace + One))
             IN  <<Mul(m32 - m23, s), Mul(m13 - m31, s), Mul(m21 - m12, s),
                   Div(One \div 4, s)>>
        ELSE IF m11 > m22 /\ m11 > m33
        THEN LET s == 2 * Sqrt(One + m11 - m22 - m33)
             IN  <<Mul(One \div 4, s), Div(m12 + m21, s), Div(m13 + m31, s),
                   Div(m32 - m23, s)>>
        ELSE IF m22 > m33
        THEN LET s == 2 * Sqrt(One + m22 - m11 - m33)
             IN  <<Div(m12 + m21, s), Mul(One \div 4, s), Div(m23 + m32, s),
                   Div(m13 - m31, s)>>
        ELSE LET s == 2 * Sqrt(One + m33 - m11 - m22)
             IN  <<Div(m13 + m31, s), Div(m23 + m32, s), Mul(One \div 4, s),
                   Div(m21 - m12, s)>>

\* applyQuaternion building its result on a copy of the receiver's elements
\* instead of on a new Matrix()
applyQuaternionOnCopy(te, x, y, z, w) ==
    LET a == toQuaternion(te)
    IN  setRotationFromQuaternion(te,
            Mul(a[1], w) + Mul(a[4], x) + Mul(a[2], z) - Mul(a[3], y),
            Mul(a[2], w) + Mul(a[4], y) + Mul(a[3], x) - Mul(a[1], z),
            Mul(a[3], w) + Mul(a[4], z) + Mul(a[1], y) - Mul(a[2], x),
            Mul(a[4], w) - Mul(a[1], x) - Mul(a[2], y) - Mul(a[3], z))

\* The elements of the matrix applyQuaternion returns: a `new Matrix()`
\* (Identity) on which setRotationFromQuaternion is called
applyQuaternion(te, x, y, z, w) ==
    LET a == toQuaternion(te)
        qax == a[1]
        qay == a[2]
        qaz == a[3]
        qaw == a[4]
        qbx == x
        qby == y
        qbz == z
        qbw == w
        nx == Mul(qax, qbw) + Mul(qaw, qbx) + Mul(qay, qbz) - Mul(qaz, qby)
        ny == Mul(qay, qbw) + Mul(qaw, qby) + Mul(qaz, qbx) - Mul(qax, qbz)
        nz == Mul(qaz, qbw) + Mul(qaw, qbz) + Mul(qax, qby) - Mul(qay, qbx)
        nw == Mul(qaw, qbw) - Mul(qax, qbx) - Mul(qay, qby) - Mul(qaz, qbz)
    IN  setRotationFromQuaternion(Identity, nx, ny, nz, nw)

\* 0.9999999, compared as |v| * 10^7 / Scale < GimbalLimit
GimbalLimit == 9999999

BelowGimbal(v) == Abs(v) * (10000000 \div Scale) < GimbalLimit

\* toEuler: [angles |-> <<x, y, z>> in degrees, threw |-> whether the call
\* ended in `throw new Error`, lock |-> whether it took the branch for gimbal
\* lock (the else branch of the order, for ZYZ the two m33 fallbacks)]
toEuler(te, order) ==
    LET m11 == El(te, 0)
        m12 == El(te, 4)
        m13 == El(te, 8)
        m21 == El(te, 1)
        m22 == El(te, 5)
        m23 == El(te, 9)
        m31 == El(te, 2)
        m32 == El(te, 6)
        m33 == El(te, 10)
        ok(x, y, z, lock) ==
            [angles |-> <<degrees(x), degrees(y), degrees(z)>>, threw |-> FALSE,
             lock |-> lock]
    IN  CASE order = "XYZ" ->
               LET y == Asin(clamp(m13, -One, One))
               IN  IF BelowGimbal(m13)
                   THEN ok(Atan2(-m23, m33), y, Atan2(-m12, m11), FALSE)
                   ELSE ok(Atan2(m32, m22), y, 0, TRUE)
          [] order = "YXZ" ->
               LET x == Asin(-clamp(m23, -One, One))
               IN  IF BelowGimbal(m23)
                   THEN ok(x, Atan2(m13, m33), Atan2(m21, m22), FALSE)
                   ELSE ok(x, Atan2(-m31, m11), 0, TRUE)
          [] order = "ZXY" ->
               LET x == Asin(clamp(m32, -One, One))
               IN  IF BelowGimbal(m32)
                   THEN ok(x, Atan2(-m31, m33), Atan2(-m12, m22), FALSE)
                   ELSE ok(x, 0, Atan2(m21, m11), TRUE)
          [] order = "ZYX" ->
               LET y == Asin(-clamp(m31, -One, One))
               IN  IF BelowGimbal(m31)
                   THEN ok(Atan2(m32, m33), y, Atan2(m21, m11), FALSE)
                   ELSE ok(0, y, Atan2(-m12, m22), TRUE)
          [] order = "YZX" ->
               LET z == Asin(clamp(m21, -One, One))
               IN  IF BelowGimbal(m21)
                   THEN ok(Atan2(-m23, m22), Atan2(-m31, m11), z, FALSE)
                   ELSE ok(0, Atan2(m13, m33), z, TRUE)
          [] order = "XZY" ->
               LET z == Asin(-clamp(m12, -One, One))
               IN  IF BelowGimbal(m12)
                   THEN ok(Atan2(m32, m22), Atan2(m13, m11), z, FALSE)
                   ELSE ok(Atan2(-m23, m33), 0, z, TRUE)
          [] order = "ZYZ" ->
               IF m33 < One
               THEN IF m33 > -One
                    THEN ok(Atan2(m23, m13), Acos(m33), Atan2(m32, -m31), FALSE)
                    ELSE ok(-Atan2(m21, m22), PI, 0, TRUE)
               ELSE ok(Atan2(m21, m22), 0, 0, TRUE)
          [] OTHER -> [angles |-> <<>>, threw |-> TRUE, lock |-> FALSE]

\* toMatrix3 returning the third column, elements 8, 9, 10
toMatrix3Column(m) ==
    <<El(m, 0), El(m, 1), El(m, 2),
      El(m, 4), El(m, 5), El(m, 6),
      El(m, 8), El(m, 9), El(m, 10)>>

toMatrix3(m) ==
    <<El(m, 0), El(m, 1), El(m, 2),
      El(m, 4), El(m, 5), El(m, 6),
      El(m, 2), El(m, 6), El(m, 10)>>

-----------------------------------------------------------------------------
(* The program state.                                                      *)
(*   heap[a]  the contents of array a, <<>> while no array has index a     *)
(*   mat[i]   the array that this.elements of Matrix instance i refers to  *)
(*   ext      the arrays the caller holds a reference to: those it built   *)
(*            and those toArray/getElements returned to it                 *)
(*   last     the last call: its name, receiver, arguments and outcome     *)
(*   steps    the number of calls made                                     *)

Free == <<>>

Insts == 1..Len(mat)

Arrays == {a \in DOMAIN heap : heap[a] # Free}

\* The elements instance i holds, which toArray() and getElements() copy
elements(i) == heap[mat[i]]

toArray(i) == elements(i)

CanAlloc == \E a \in DOMAIN heap : heap[a] = Free

\* The index a newly created array gets
NewArr == CHOOSE a \in DOMAIN heap : heap[a] = Free /\ \A b \in 1..(a - 1) : heap[b] # Free

\* Arrays that neither an instance nor the caller refers to are reclaimed
Collect(h, m, e) ==
    [a \in DOMAIN h |-> IF a \in e \/ \E i \in 1..Len(m) : m[i] = a THEN h[a] ELSE Free]

NoCall ==
    [op |-> "none", recv |-> 0, arg |-> 0, res |-> 0, in |-> <<>>, order |-> "",
     pre |-> <<>>, ret |-> <<>>, threw |-> FALSE]

\* All elements within the range the exploration keeps numbers in
Small(m) == \A k \in 1..16 : Abs(m[k]) <= MaxAbs * Scale

\* A call that changes no array and creates nothing
Query(op, i, order, ret, threw) ==
    /\ steps < MaxSteps
    /\ last' = [NoCall EXCEPT !.op = op, !.recv = i, !.order = order,
                              !.pre = elements(i), !.ret = ret, !.threw = threw]
    /\ steps' = steps + 1
    /\ UNCHANGED <<heap, mat, ext>>

\* A call that assigns to elements of the receiver's array
Mutate(op, i, in, order, new, threw) ==
    /\ steps < MaxSteps
    /\ heap' = [heap EXCEPT ![mat[i]] = new]
    /\ last' = [NoCall EXCEPT !.op = op, !.recv = i, !.in = in, !.order = order,
                              !.pre = elements(i), !.threw = threw]
    /\ steps' = steps + 1
    /\ UNCHANGED <<mat, ext>>

\* A call that returns a new Matrix whose elements field refers to a new
\* array holding `new`
Create(op, i, j, in, order, new) ==
    /\ steps < MaxSteps
    /\ Len(mat) < MaxInst
    /\ CanAlloc
    /\ heap' = [heap EXCEPT ![NewArr] = new]
    /\ mat' = Append(mat, NewArr)
    /\ last' = [NoCall EXCEPT !.op = op, !.recv = i, !.arg = j, !.res = Len(mat) + 1,
                              !.in = in, !.order = order,
                              !.pre = IF i = 0 THEN <<>> ELSE elements(i)]
    /\ steps' = steps + 1
    /\ UNCHANGED ext

\* A call that throws before it changed anything
Throw(op, i, in, order) ==
    /\ steps < MaxSteps
    /\ last' = [NoCall EXCEPT !.op = op, !.recv = i, !.in = in, !.order = order,
                              !.pre = elements(i), !.threw = TRUE]
    /\ steps' = steps + 1
    /\ UNCHANGED <<heap, mat, ext>>

\* new Matrix()
Construct == Create("new", 0, 0, <<>>, "", Identity)

\* i.setFromMatrixArray(a): this.elements = matrix
SetFromMatrixArray(i, a) ==
    /\ steps < MaxSteps
    /\ mat' = [mat EXCEPT ![i] = a]
    /\ heap' = Collect(heap, mat', ext)
    /\ last' = [NoCall EXCEPT !.op = "setFromMatrixArray", !.recv = i, !.arg = a,
                              !.pre = elements(i)]
    /\ steps' = steps + 1
    /\ UNCHANGED ext

SetPosition(i, p) ==
    Mutate("setPosition", i, p, "", setPosition(elements(i), p[1], p[2], p[3]), FALSE)

SetRotation(i, ang, order) ==
    LET r == setRotation(elements(i), ang[1], ang[2], ang[3], order)
    IN  Mutate("setRotation", i, ang, order, r.elements, r.threw)

SetRotationFromQuaternion(i, q) ==
    Mutate("setRotationFromQuaternion", i, q, "",
           setRotationFromQuaternion(elements(i), q[1], q[2], q[3], q[4]), FALSE)

\* multiplied writing the product into the receiver's own array and
\* returning the receiver
MultipliedInPlace(i, j) ==
    /\ steps < MaxSteps
    /\ Small(elements(i)) /\ Small(elements(j))
    /\ heap' = [heap EXCEPT ![mat[i]] = multiplied(elements(i), toArray(j))]
    /\ last' = [NoCall EXCEPT !.op = "multiplied", !.recv = i, !.arg = j, !.res = i,
                              !.pre = elements(i)]
    /\ steps' = steps + 1
    /\ UNCHANGED <<mat, ext>>

\* i.multiplied(j): `new Matrix().setFromMatrixArray(te)`
Multiplied(i, j) ==
    /\ Small(elements(i)) /\ Small(elements(j))
    /\ Create("multiplied", i, j, <<>>, "", multiplied(elements(i), toArray(j)))

\* i.multiply(j): this.setFromMatrixArray(this.multiplied(matrix).getElements()),
\* the receiver is left referring to the copy getElements() made
MultiplyAs(op, i, j) ==
    /\ steps < MaxSteps
    /\ Small(elements(i)) /\ Small(elements(j))
    /\ CanAlloc
    /\ mat' = [mat EXCEPT ![i] = NewArr]
    /\ heap' = Collect([heap EXCEPT ![NewArr] = multiplied(elements(i), toArray(j))],
                       mat', ext)
    /\ last' = [NoCall EXCEPT !.op = op, !.recv = i, !.arg = j, !.pre = elements(i)]
    /\ steps' = steps + 1
    /\ UNCHANGED ext

Multiply(i, j) == MultiplyAs("multiply", i, j)

\* i.transform(j): this.multiply(matrix)
Transform(i, j) == MultiplyAs("transform", i, j)

ApplyQuaternion(i, q) ==
    /\ Small(elements(i))
    /\ Create("applyQuaternion", i, 0, q, "",
              applyQuaternion(elements(i), q[1], q[2], q[3], q[4]))

\* The elements of the matrix i.rotated(x, y, z, order) returns, and whether
\* the call threw: the quaternion of `new Matrix().setRotation(...)` applied
\* to this.clone()
rotated(te, ang, order) ==
    LET r == setRotation(Identity, ang[1], ang[2], ang[3], order)
        q == toQuaternion(r.elements)
    IN  [elements |-> IF r.threw THEN te ELSE applyQuaternion(te, q[1], q[2], q[3], q[4]),
         threw |-> r.threw]

Rotated(i, ang, order) ==
    /\ Small(elements(i))
    /\ LET r == rotated(toArray(i), ang, order)
       IN  IF r.threw THEN Throw("rotated", i, ang, order)
           ELSE Create("rotated", i, 0, ang, order, r.elements)

\* The elements of the receiver after i.rotate(x, y, z, order), and whether the
\* call threw: the matrix this.applyQuaternion(...) returns is dropped
rotate(te, ang, order) ==
    LET r == setRotation(Identity, ang[1], ang[2], ang[3], order)
    IN  [elements |-> te, threw |-> r.threw]

Rotate(i, ang, order) ==
    /\ Small(elements(i))
    /\ LET r == rotate(elements(i), ang, order)
       IN  Mutate("rotate", i, ang, order, r.elements, r.threw)

ToEuler(i, order) ==
    LET r == toEuler(elements(i), order)
    IN  Query("toEuler", i, order, r.angles, r.threw)

ToQuaternion(i) ==
    /\ Small(elements(i))
    /\ Query("toQuaternion", i, "", toQuaternion(elements(i)), FALSE)

ToMatrix3(i) == Query("toMatrix3", i, "", toMatrix3(elements(i)), FALSE)

\* i.toArray() and i.getElements(): [...this.elements], a new array the
\* caller now holds
CopyAs(op, i) ==
    /\ steps < MaxSteps
    /\ CanAlloc
    /\ heap' = [heap EXCEPT ![NewArr] = toArray(i)]
    /\ ext' = ext \cup {NewArr}
    /\ last' = [NoCall EXCEPT !.op = op, !.recv = i, !.arg = NewArr, !.pre = elements(i),
                              !.ret = toArray(i)]
    /\ steps' = steps + 1
    /\ UNCHANGED mat

ToArray(i) == CopyAs("toArray", i)

GetElements(i) == CopyAs("getElements", i)

\* i.clone(): new Matrix().setFromMatrixArray(this.toArray())
Clone(i) == Create("clone", i, 0, <<>>, "", toArray(i))

-----------------------------------------------------------------------------
(* Arguments and starting matrices                                         *)

\* An array the caller builds: a scaling by 2 with translation (3, -1, 2)
CallerLiteral ==
    <<2 * One, 0, 0, 0,
      0, One, 0, 0,
      0, 0, One, 0,
      3 * One, -One, 2 * One, One>>

\* A rotation with a translation: what
\* new Matrix().setRotation(30, 45, 60, "XYZ").setPosition(1, 2, 3) holds
Pose == setPosition(setRotation(Identity, 30, 45, 60, "XYZ").elements,
                    One, 2 * One, 3 * One)

\* An array of 16 different numbers, 0.25 to 4, as setFromMatrixArray accepts
Marked == [k \in 1..16 |-> k * (One \div 4)]

StartMatrices == {Identity, Pose, Marked, CallerLiteral}

Positions == {<<One, 2 * One, 3 * One>>}

Angles == {<<90, 0, 0>>, <<30, 45, 60>>}

AnyOrder == EulerOrders \cup {"BAD"}

\* A half turn about x, and a third of a turn about (1, 1, 1)
Quaternions == {<<One, 0, 0, 0>>, <<One \div 2, One \div 2, One \div 2, One \div 2>>}

\* The angles, in degrees, of the rotations checked on the grid
GridAngles == {-150, -90, -45, 0, 30, 45, 60, 90, 180}

-----------------------------------------------------------------------------
(* Spec: sequences of calls on up to MaxInst instances.  The caller starts *)
(* with one array literal in hand and two matrices just constructed.       *)

Init ==
    /\ heap = [a \in 1..MaxArr |-> IF a = 1 THEN CallerLiteral
                                   ELSE IF a \in {2, 3} THEN Identity ELSE Free]
    /\ mat = <<2, 3>>
    /\ ext = {1}
    /\ last = NoCall
    /\ steps = 0

Next ==
    \/ Construct
    \/ \E i \in Insts, a \in ext : SetFromMatrixArray(i, a)
    \/ \E i \in Insts, p \in Positions : SetPosition(i, p)
    \/ \E i \in Insts : SetRotation(i, <<90, 0, 0>>, "XYZ")
    \/ \E i \in Insts : SetRotationFromQuaternion(i, <<One, 0, 0, 0>>)
    \/ \E i \in Insts, j \in Insts : Multiplied(i, j)
    \/ \E i \in Insts, j \in Insts : Multiply(i, j)
    \/ \E i \in Insts : ApplyQuaternion(i, <<One, 0, 0, 0>>)
    \/ \E i \in Insts : Rotated(i, <<90, 0, 0>>, "XYZ")
    \/ \E i \in Insts : ToArray(i)
    \/ \E i \in Insts : Clone(i)

Spec == Init /\ [][Next]_vars

-----------------------------------------------------------------------------
(* SpecOps: one call, whichever, on two instances a and b that hold any of *)
(* the starting matrices                                                   *)

InitOps ==
    /\ \E A \in StartMatrices, B \in StartMatrices :
          heap = [a \in 1..MaxArr |-> IF a = 1 THEN A ELSE IF a = 2 THEN B ELSE Free]
    /\ mat = <<1, 2>>
    /\ ext = {}
    /\ last = NoCall
    /\ steps = 0

\* No call has been made yet
Fresh == last.op = "none"

NextOps ==
    \/ \E i \in Insts, p \in Positions : Fresh /\ SetPosition(i, p)
    \/ \E i \in Insts, ang \in Angles, o \in AnyOrder : Fresh /\ SetRotation(i, ang, o)
    \/ \E i \in Insts, q \in Quaternions : Fresh /\ SetRotationFromQuaternion(i, q)
    \/ \E i \in Insts, j \in Insts : Fresh /\ Multiplied(i, j)
    \/ \E i \in Insts, j \in Insts : Fresh /\ Multiply(i, j)
    \/ \E i \in Insts, j \in Insts : Fresh /\ Transform(i, j)
    \/ \E i \in Insts, q \in Quaternions : Fresh /\ ApplyQuaternion(i, q)
    \/ \E i \in Insts, ang \in Angles, o \in AnyOrder : Fresh /\ Rotated(i, ang, o)
    \/ \E i \in Insts, ang \in Angles, o \in AnyOrder : Fresh /\ Rotate(i, ang, o)
    \/ \E i \in Insts, o \in AnyOrder : Fresh /\ ToEuler(i, o)
    \/ \E i \in Insts : Fresh /\ ToQuaternion(i)
    \/ \E i \in Insts : Fresh /\ ToMatrix3(i)
    \/ \E i \in Insts : Fresh /\ ToArray(i)
    \/ \E i \in Insts : Fresh /\ GetElements(i)
    \/ \E i \in Insts : Fresh /\ Clone(i)

SpecOps == InitOps /\ [][NextOps]_vars

-----------------------------------------------------------------------------
(* SpecRot: new Matrix-or-marked .setRotation(x, y, z, order) for all      *)
(* angles of the grid and all orders, followed by toEuler(order).          *)
(* SpecTrip: the same two calls on a new Matrix(), for angles away from    *)
(* 0, 90 and 180 degrees.                                                  *)

RotInit(starts) ==
    /\ \E A \in starts :
          heap = [a \in 1..MaxArr |-> IF a = 1 THEN A ELSE Free]
    /\ mat = <<1>>
    /\ ext = {}
    /\ last = NoCall
    /\ steps = 0

RotNext(angles) ==
    \/ \E x \in angles, y \in angles, z \in angles, o \in AnyOrder :
          Fresh /\ SetRotation(1, <<x, y, z>>, o)
    \/ last.op = "setRotation" /\ ToEuler(1, last.order)

InitRot == RotInit({Identity, Marked})

NextRot == RotNext(GridAngles)

SpecRot == InitRot /\ [][NextRot]_vars

AwayAngles == {30, 45, 60}

InitTrip == RotInit({Identity})

NextTrip == RotNext(AwayAngles)

SpecTrip == InitTrip /\ [][NextTrip]_vars

-----------------------------------------------------------------------------
(* Properties                                                              *)

\* The operations that return a newly created Matrix
Creators == {"multiplied", "applyQuaternion", "rotated"}

\* The operations that assign to the receiver's elements or to its
\* elements field
Mutators == {"setFromMatrixArray", "setPosition", "setRotation",
             "setRotationFromQuaternion", "multiply", "transform", "rotate"}

\* The quaternion of new Matrix().setRotation(x, y, z, order)
EulerQuaternion(ang, order) ==
    toQuaternion(setRotation(Identity, ang[1], ang[2], ang[3], order).elements)

\* C1 (as claimed): after m.rotate(x, y, z, order) with a supported order the
\* 16 elements of the receiver are those of the matrix m.applyQuaternion(q)
\* returns, q being the quaternion of new Matrix().setRotation(x, y, z, order);
\* in particular elements 12, 13, 14 are 0 whatever translation m had.
C1_RotateMutatesReceiver ==
    (last.op = "rotate" /\ ~last.threw) =>
        LET q == EulerQuaternion(last.in, last.order)
        IN  /\ elements(last.recv) = applyQuaternion(last.pre, q[1], q[2], q[3], q[4])
            /\ El(elements(last.recv), 12) = 0
            /\ El(elements(last.recv), 13) = 0
            /\ El(elements(last.recv), 14) = 0

\* C2 (as claimed): a call on one Matrix instance never changes the elements
\* that toArray() reports for a different instance.
C2_NoSharedStorage ==
    [][\A j \in Insts : (last'.recv # j) => (heap'[mat'[j]] = heap[mat[j]])]_vars

Product(a, b) ==
    [n \in 1..16 |->
        LET c == (n - 1) \div 4
            r == (n - 1) % 4
            term(k) == Mul(El(a, 4 * k + r), El(b, 4 * c + k))
        IN  term(0) + term(1) + term(2) + term(3)]

\* The elements the argument of the last call held before the call
ArgBefore == IF last.arg = last.recv THEN last.pre ELSE elements(last.arg)

\* C4: a.multiplied(b) holds the 4x4 product a.b; with b the identity it
\* equals a and with a the identity it equals b; a.multiply(b) and
\* a.transform(b) leave a holding that product.
C4_MultipliedIsProduct ==
    /\ last.op = "multiplied" =>
          /\ elements(last.res) = Product(last.pre, ArgBefore)
          /\ ArgBefore = Identity => elements(last.res) = last.pre
          /\ last.pre = Identity => elements(last.res) = ArgBefore
    /\ last.op \in {"multiply", "transform"} =>
          elements(last.recv) = Product(last.pre, ArgBefore)

\* a.multiply(b) was called on two matrices that do not commute
WitnessC4 ==
    /\ last.op = "multiply"
    /\ last.recv # last.arg
    /\ elements(last.recv) = Product(last.pre, ArgBefore)
    /\ Product(last.pre, ArgBefore) # Product(ArgBefore, last.pre)

\* The rotation about one axis by r, as rows
AxisRotation(axis, r) ==
    LET c == Cos(r)
        s == Sin(r)
    IN  CASE axis = "X" -> <<<<One, 0, 0>>, <<0, c, -s>>, <<0, s, c>>>>
          [] axis = "Y" -> <<<<c, 0, s>>, <<0, One, 0>>, <<-s, 0, c>>>>
          [] axis = "Z" -> <<<<c, -s, 0>>, <<s, c, 0>>, <<0, 0, One>>>>

Mul3(A, B) ==
    [r \in 1..3 |-> [c \in 1..3 |->
        Mul(A[r][1], B[1][c]) + Mul(A[r][2], B[2][c]) + Mul(A[r][3], B[3][c])]]

\* The angle, among <<x, y, z>>, that belongs to an axis
AxisAngle(axis, ang) ==
    radians(CASE axis = "X" -> ang[1] [] axis = "Y" -> ang[2] [] axis = "Z" -> ang[3])

\* R_A . R_B . R_C for the order "ABC"
AxisProduct(ang, A, B, C) ==
    Mul3(Mul3(AxisRotation(A, AxisAngle(A, ang)), AxisRotation(B, AxisAngle(B, ang))),
         AxisRotation(C, AxisAngle(C, ang)))

EulerProduct(ang, order) ==
    CASE order = "XYZ" -> AxisProduct(ang, "X", "Y", "Z")
      [] order = "YXZ" -> AxisProduct(ang, "Y", "X", "Z")
      [] order = "ZXY" -> AxisProduct(ang, "Z", "X", "Y")
      [] order = "ZYX" -> AxisProduct(ang, "Z", "Y", "X")
      [] order = "YZX" -> AxisProduct(ang, "Y", "Z", "X")
      [] order = "XZY" -> AxisProduct(ang, "X", "Z", "Y")

\* The 3x3 rotation block of the elements, as rows
Block(m) == [r \in 1..3 |-> [c \in 1..3 |-> El(m, 4 * (c - 1) + (r - 1))]]

\* Equal but for the rounding of the products to 1/Scale
Tolerance == 1

Near(A, B) == \A r \in 1..3, c \in 1..3 : Abs(A[r][c] - B[r][c]) <= Tolerance

ThreeAxisOrders == EulerOrders \ {"ZYZ"}

\* C5 (as claimed): for each of the six three-axis orders ABC,
\* setRotation(x, y, z, ABC) fills the rotation block with R_A . R_B . R_C.
C5_BlockIsAxisProduct ==
    (last.op = "setRotation" /\ last.order \in ThreeAxisOrders) =>
        Near(Block(elements(last.recv)), EulerProduct(last.in, last.order))

\* C6 (as claimed): for every supported order and every angle triple for
\* which toEuler does not take its gimbal-lock branch,
\* new Matrix().setRotation(x, y, z, order).toEuler(order) returns (x, y, z).
C6_EulerRoundTrip ==
    [][(/\ last.op = "setRotation"
        /\ last.order \in EulerOrders
        /\ last.pre = Identity
        /\ last'.op = "toEuler"
        /\ last'.order = last.order
        /\ ~toEuler(elements(last.recv), last.order).lock)
       => last'.ret = last.in]_vars

\* C7: setRotation and toEuler called with an order that is none of the seven
\* throw, and the receiver holds the 16 elements it held before the call.
C7_BadOrderThrowsUnchanged ==
    (last.op \in {"setRotation", "toEuler"} /\ last.order \notin EulerOrders) =>
        /\ last.threw
        /\ elements(last.recv) = last.pre

\* setRotation threw on a matrix that was not the identity
WitnessC7 ==
    /\ last.op = "setRotation"
    /\ last.order \notin EulerOrders
    /\ last.threw
    /\ last.pre = Marked

\* C8 (as claimed): for a matrix whose elements 2 and 10 differ,
\* toMatrix3()[8] is element 2 of the matrix.
C8_LastEntryIsElement2 ==
    (last.op = "toMatrix3" /\ El(last.pre, 2) # El(last.pre, 10)) =>
        last.ret[9] = El(last.pre, 2)

\* C8 (amended): for a matrix whose elements 2 and 10 differ,
\* toMatrix3()[8] is element 10 of the matrix and not element 2; the entries
\* that repeat elements 2 and 6 are toMatrix3()[6] and toMatrix3()[7].
C8_LastEntryIsElement10 ==
    (last.op = "toMatrix3" /\ El(last.pre, 2) # El(last.pre, 10)) =>
        /\ last.ret[9] = El(last.pre, 10)
        /\ last.ret[9] # El(last.pre, 2)
        /\ last.ret[7] = El(last.pre, 2)
        /\ last.ret[8] = El(last.pre, 6)

\* toMatrix3 was called on a matrix whose elements 2, 8 and 10 all differ
WitnessC8 ==
    /\ last.op = "toMatrix3"
    /\ El(last.pre, 2) # El(last.pre, 10)
    /\ El(last.pre, 2) # El(last.pre, 8)
    /\ elements(last.recv) = last.pre

\* C9 (as claimed): setRotation(x, y, z, "ZYZ") with y = 180 degrees takes
\* the second degenerate branch: it leaves elements 2, 6, 8, 9, 10 at the
\* values the matrix held before the call.
C9_HalfTurnKeepsThirdAxis ==
    (last.op = "setRotation" /\ last.order = "ZYZ" /\ last.in[2] = 180) =>
        \A k \in {2, 6, 8, 9, 10} : El(elements(last.recv), k) = El(last.pre, k)

\* C10: the matrix applyQuaternion and rotated return has elements 12, 13,
\* 14 equal to 0 and elements 3, 7, 11, 15 equal to 0, 0, 0, 1.
C10_ResultIsPureRotation ==
    (last.op \in {"applyQuaternion", "rotated"} /\ ~last.threw) =>
        /\ \A k \in {3, 7, 11, 12, 13, 14} : El(elements(last.res), k) = 0
        /\ El(elements(last.res), 15) = One

\* rotated returned a matrix for a receiver that had a translation, and
\* applyQuaternion for a receiver whose bottom row was not 0, 0, 0, 1
WitnessC10 ==
    \/ /\ last.op = "rotated"
       /\ ~last.threw
       /\ last.pre = Pose
       /\ El(elements(last.recv), 12) # 0
    \/ /\ last.op = "applyQuaternion"
       /\ last.pre = Marked
       /\ El(elements(last.recv), 3) # 0

====
